---- MODULE Spec2Model ----
(***************************************************************************)
(* Amethyst Colorizer: the filter engine of src/src/lib.rs and the PNG     *)
(* driver of src/src/bin/cli.rs.                                           *)
(*                                                                         *)
(* Numbers.  The code computes in f32.  The model computes in fixed point: *)
(*   - saturation, value and alpha are integers in units of 1/Unit, so the *)
(*     f32 range [0,1] is 0..Unit and an 8-bit channel c is c * Unit/255;  *)
(*   - a hue is an integer in units of 1/HUnit degree, kept raw (not       *)
(*     wrapped) as palette's RgbHue keeps it, and wrapped where palette    *)
(*     wraps it (into_positive_degrees);                                   *)
(*   - a filter's value is an integer in units of 1/VUnit.                 *)
(* Every division rounds to the nearest unit (RDiv), as f32 arithmetic     *)
(* rounds to the nearest representable number.  Only finite values are     *)
(* modelled: there is no NaN and no infinity.                              *)
(*                                                                         *)
(* Libraries.  The palette and image crates are modelled by what the       *)
(* called functions compute: palette's Hsv <-> Rgb conversions, SetHue,    *)
(* ShiftHueAssign and SaturateAssign, and image's contrast_in_place,       *)
(* huerotate_in_place and brighten_in_place.                               *)
(***************************************************************************)
EXTENDS Integers, Sequences, FiniteSets

\* ------------------------------------------------------------------ bounds
\* The longest filter list of a DyeColorConfig the model draws.
MaxFilters == 2
\* The most pixels an image buffer of the model holds.
MaxPixels == 2
\* The most consecutive calls of apply_pixel_filter.
MaxCalls == 2
\* The most consecutive calls of apply_image_filter.
MaxImageCalls == 1
\* The largest hue magnitude (units of 1/HUnit degree) a Hue Multiply filter is
\* applied to: beyond it the product leaves the model's integers.
HueCap == 100000

\* ----------------------------------------------------------------- numbers
\* The largest value of a u8 channel.
ChannelMax == 255
\* Fixed-point resolution of the f32 components saturation, value, alpha
\* (a multiple of ChannelMax, so that c / 255 is exact).
Unit == 10200
\* Fixed-point resolution of a hue, per degree.
HUnit == 100
\* Fixed-point resolution of Filter.value.
VUnit == 10

Abs(x) == IF x < 0 THEN -x ELSE x
Min(a, b) == IF a < b THEN a ELSE b
Max(a, b) == IF a > b THEN a ELSE b

\* a / b rounded to the nearest integer, halves away from zero (b > 0).
RDiv(a, b) == IF a >= 0 THEN (2 * a + b) \div (2 * b) ELSE -((2 * (-a) + b) \div (2 * b))

\* let v = value; body(v): the value is computed once and bound, as a Rust let
\* binds it (a TLA+ LET is a definition, expanded at each use).
Let(value, body(_)) == CHOOSE out \in {body(v) : v \in {value}} : TRUE

\* f32::clamp(x, lo, hi)
clamp(x, lo, hi) == IF x < lo THEN lo ELSE IF x > hi THEN hi ELSE x

\* A filter value as a component (units of 1/Unit).
ValueToUnit(v) == v * (Unit \div VUnit)
\* A filter value as an angle (units of 1/HUnit degree).
ValueToHue(v) == v * (HUnit \div VUnit)
\* f32::round() as i32 of a filter value: the nearest integer.
RoundValue(v) == RDiv(v, VUnit)

\* ------------------------------------------------------------- config.rs
FilterType == {"Pixel", "Image"}
FilterTarget == {"Hue", "Saturation", "Brightness", "Contrast"}
FilterOperation == {"Add", "Multiply", "Set"}

Filter(kind, target, operation, value) ==
  [kind |-> kind, target |-> target, operation |-> operation, value |-> value]

DyeColorConfig(rgb, allow_alpha, filters) ==
  [rgb |-> rgb, allow_alpha |-> allow_alpha, filters |-> filters]

\* ------------------------------------------------------------------ Error
Ok == <<"Ok">>

\* Error::invalid_filter(filter)
invalid_filter(filter) ==
  <<"InvalidFilter", filter.kind, filter.target, filter.operation>>

IsInvalidFilter(r) == r[1] = "InvalidFilter"

\* ------------------------------------------------------ colour-space bridge
\* Srgba::from_components(pixel).into_format(): u8 -> f32, c / 255.
IntoFloat(c) == c * (Unit \div ChannelMax)

\* Srgba<f32>::into_format(): f32 -> u8, clamped to [0,1], times 255, rounded.
IntoU8(x) == RDiv(clamp(x, 0, Unit) * ChannelMax, Unit)

\* A faulty variant of into_positive_degrees: a negative hue is lifted by one
\* turn and nothing else is wrapped.
into_positive_degrees_once(hue) == IF hue < 0 THEN hue + 360 * HUnit ELSE hue

\* RgbHue::into_positive_degrees(): the hue wrapped into [0, 360).
into_positive_degrees(hue) == hue % (360 * HUnit)

\* Hsv::from_color(Srgb<f32>): palette's RGB -> HSV; red, green, blue in units
\* of 1/Unit.  The hue is left raw: it is negative for a red-dominant colour
\* with green < blue.
HsvFromRgb(red, green, blue) ==
  LET rg == IF red > green
            THEN [max |-> red, min |-> green, sep |-> green - blue, coeff |-> 0]
            ELSE [max |-> green, min |-> red, sep |-> blue - red, coeff |-> 2]
      m == IF blue > rg.max
           THEN [max |-> blue, min |-> rg.min, sep |-> red - green, coeff |-> 4]
           ELSE [rg EXCEPT !.min = Min(blue, rg.min)]
      d == m.max - m.min
  IN IF m.max # m.min
     THEN [hue |-> RDiv(m.sep * 60 * HUnit, d) + m.coeff * 60 * HUnit,
           saturation |-> RDiv(d * Unit, m.max),
           value |-> m.max]
     ELSE [hue |-> 0, saturation |-> 0, value |-> m.max]

\* Hsva::from_color(Srgba::from_components(pixel.0).into_format())
\* (walk_pixels, the read side): an RGBA pixel <<r, g, b, a>> to HSVA.
ToHsva(pixel) ==
  LET hsv == HsvFromRgb(IntoFloat(pixel[1]), IntoFloat(pixel[2]), IntoFloat(pixel[3]))
  IN [hue |-> hsv.hue, saturation |-> hsv.saturation, value |-> hsv.value,
      alpha |-> IntoFloat(pixel[4])]

\* Rgb::from_color(Hsv): palette's HSV -> RGB, as <<red, green, blue>> in
\* units of 1/Unit.
RgbFromHsv(hue, saturation, value) ==
  LET c == RDiv(value * saturation, Unit)
      h == into_positive_degrees(hue)
      x == RDiv(c * (60 * HUnit - Abs((h % (120 * HUnit)) - 60 * HUnit)), 60 * HUnit)
      m == value - c
      sector == h \div (60 * HUnit)
      rgb == CASE sector = 0 -> <<c, x, 0>>
               [] sector = 1 -> <<x, c, 0>>
               [] sector = 2 -> <<0, c, x>>
               [] sector = 3 -> <<0, x, c>>
               [] sector = 4 -> <<x, 0, c>>
               [] OTHER      -> <<c, 0, x>>
  IN <<rgb[1] + m, rgb[2] + m, rgb[3] + m>>

\* hsva.into_color() then rgba.into_format().into_components()
\* (walk_pixels, the write side): HSVA to an RGBA pixel.
FromHsva(hsva) ==
  LET rgb == RgbFromHsv(hsva.hue, hsva.saturation, hsva.value)
  IN <<IntoU8(rgb[1]), IntoU8(rgb[2]), IntoU8(rgb[3]), IntoU8(hsva.alpha)>>

\* ------------------------------------------------------ apply_pixel_filter
\* palette ShiftHueAssign::shift_hue_assign: hue += amount (raw, no wrap).
shift_hue_assign(hsva, amount) == [hsva EXCEPT !.hue = @ + amount]

\* A faulty variant of set_hue: the hue is blended with the given one, not replaced.
set_hue_blend(hsva, hue) == [hsva EXCEPT !.hue = (@ + hue) \div 2]

\* palette SetHue::set_hue
set_hue(hsva, hue) == [hsva EXCEPT !.hue = hue]

\* palette SaturateAssign::saturate_fixed_assign for Hsv:
\*   saturation += max_saturation * amount; clamp to [0, 1].
saturate_fixed_assign(hsva, amount) ==
  [hsva EXCEPT !.saturation = clamp(@ + amount, 0, Unit)]

\* palette SaturateAssign::saturate_assign for Hsv ("scale the colour towards
\* the maximum saturation by factor"; factor in units of 1/VUnit):
\*   difference = if factor >= 0 { max_saturation - saturation } else { saturation };
\*   saturation += max(difference, 0) * factor; clamp to [0, 1].
saturate_assign(hsva, factor) ==
  LET difference == IF factor >= 0 THEN Unit - hsva.saturation ELSE hsva.saturation
  IN [hsva EXCEPT !.saturation =
        clamp(@ + RDiv(Max(difference, 0) * factor, VUnit), 0, Unit)]

\* The Hue arm of apply_pixel_filter.
PixelHue(filter, hsva) ==
  CASE filter.operation = "Add" -> shift_hue_assign(hsva, ValueToHue(filter.value))
    [] filter.operation = "Multiply" -> set_hue(hsva, RDiv(hsva.hue * filter.value, VUnit))
    [] OTHER -> set_hue(hsva, ValueToHue(filter.value))

\* The Saturation arm of apply_pixel_filter.
PixelSaturation(filter, hsva) ==
  CASE filter.operation = "Add" -> saturate_fixed_assign(hsva, ValueToUnit(filter.value))
    [] filter.operation = "Multiply" -> saturate_assign(hsva, filter.value)
    [] OTHER -> [hsva EXCEPT !.saturation = clamp(ValueToUnit(filter.value), 0, Unit)]

\* A faulty variant of PixelBrightness: Add without the clamp.
PixelBrightness_unclamped(filter, hsva) ==
  CASE filter.operation = "Add" ->
         [hsva EXCEPT !.value = @ + ValueToUnit(filter.value)]
    [] filter.operation = "Multiply" ->
         [hsva EXCEPT !.value = clamp(RDiv(@ * filter.value, VUnit), 0, Unit)]
    [] OTHER -> [hsva EXCEPT !.value = clamp(ValueToUnit(filter.value), 0, Unit)]

\* The Brightness arm of apply_pixel_filter.
PixelBrightness(filter, hsva) ==
  CASE filter.operation = "Add" ->
         [hsva EXCEPT !.value = clamp(@ + ValueToUnit(filter.value), 0, Unit)]
    [] filter.operation = "Multiply" ->
         [hsva EXCEPT !.value = clamp(RDiv(@ * filter.value, VUnit), 0, Unit)]
    [] OTHER -> [hsva EXCEPT !.value = clamp(ValueToUnit(filter.value), 0, Unit)]

\* apply_pixel_filter(filter, &mut hsva): the result and the HSVA value left
\* behind.  Contrast returns the error before anything is written.
apply_pixel_filter(filter, hsva) ==
  CASE filter.target = "Contrast" -> [result |-> invalid_filter(filter), hsva |-> hsva]
    [] filter.target = "Hue" -> [result |-> Ok, hsva |-> PixelHue(filter, hsva)]
    [] filter.target = "Saturation" -> [result |-> Ok, hsva |-> PixelSaturation(filter, hsva)]
    [] OTHER -> [result |-> Ok, hsva |-> PixelBrightness(filter, hsva)]

\* ------------------------------------------------------ image crate colorops
\* An image buffer is the sequence of its RGBA pixels in row-major order, the
\* order of RgbaImage::pixels_mut().

\* One channel under contrast_in_place(image, contrast):
\*   percent = ((100 + contrast) / 100)^2;
\*   d = ((c / 255 - 0.5) * percent + 0.5) * 255; clamp to [0, 255]; truncate.
\* contrast in units of 1/VUnit; percent is kept in thousandths.
ContrastChannel(c, contrast) ==
  LET percent == ((100 * VUnit + contrast) * (100 * VUnit + contrast)) \div (VUnit * VUnit * 10)
      twice == (2 * c - ChannelMax) * percent + ChannelMax * 1000
  IN IF twice <= 0 THEN 0 ELSE Min(ChannelMax, twice \div 2000)

\* contrast_in_place: Pixel::map, so the alpha channel is adjusted as well.
contrast_in_place(image, contrast) ==
  [i \in 1..Len(image) |-> [ch \in 1..4 |-> ContrastChannel(image[i][ch], contrast)]]

\* brighten_in_place(image, value): Pixel::map_with_alpha, every colour
\* channel becomes clamp(c + value, 0, 255) and alpha is kept.
brighten_in_place(image, value) ==
  [i \in 1..Len(image) |->
     [ch \in 1..4 |-> IF ch = 4 THEN image[i][ch]
                      ELSE clamp(image[i][ch] + value, 0, ChannelMax)]]

\* <<cos, sin>> of an angle in whole degrees.  The model rotates by multiples
\* of a quarter turn only, where both are exact.
CosSin(angle) ==
  CASE angle % 360 = 0 -> <<1, 0>>
    [] angle % 360 = 90 -> <<0, 1>>
    [] angle % 360 = 180 -> <<-1, 0>>
    [] angle % 360 = 270 -> <<0, -1>>

\* The hue rotation matrix of huerotate_in_place, in thousandths.
HueMatrix(angle) ==
  LET cosv == CosSin(angle)[1]
      sinv == CosSin(angle)[2]
  IN << 213 + cosv * 787 - sinv * 213,
        715 - cosv * 715 - sinv * 715,
         72 - cosv * 72 + sinv * 928,
        213 - cosv * 213 + sinv * 143,
        715 + cosv * 285 + sinv * 140,
         72 - cosv * 72 - sinv * 283,
        213 - cosv * 213 - sinv * 787,
        715 - cosv * 715 + sinv * 715,
         72 + cosv * 928 + sinv * 72 >>

\* clamp(x, 0.0, 255.0) cast to u8, x in thousandths.
ClampCast(x) == IF x <= 0 THEN 0 ELSE Min(ChannelMax, x \div 1000)

\* huerotate_in_place(image, value): the colour channels are multiplied by the
\* rotation matrix, clamped and truncated; alpha is kept.
huerotate_in_place(image, value) ==
  LET m == HueMatrix(value)
      rot(px) == << ClampCast(m[1] * px[1] + m[2] * px[2] + m[3] * px[3]),
                    ClampCast(m[4] * px[1] + m[5] * px[2] + m[6] * px[3]),
                    ClampCast(m[7] * px[1] + m[8] * px[2] + m[9] * px[3]),
                    px[4] >>
  IN [i \in 1..Len(image) |-> rot(image[i])]

\* ------------------------------------------------------------- walk_pixels
\* A faulty variant of FilterIndexes: the kind test is dropped, every index is taken.
FilterIndexes_anyKind(filters, kind, from) ==
  [n \in 1..(Len(filters) - from + 1) |-> from + n - 1]

\* The indexes of the filters of a kind, in list order:
\*   config.filters.iter().filter(|f| f.kind == kind)
RECURSIVE FilterIndexes(_, _, _)
FilterIndexes(filters, kind, from) ==
  IF from > Len(filters) THEN <<>>
  ELSE (IF filters[from].kind = kind THEN <<from>> ELSE <<>>)
       \o FilterIndexes(filters, kind, from + 1)

\* for filter in <the Pixel filters> { apply_pixel_filter(filter, hsva)?; }
\* ks: the indexes still to apply.  applied: the indexes apply_pixel_filter was
\* called with, in call order.
RECURSIVE PixelFilterLoop(_, _, _)
PixelFilterLoop(filters, ks, hsva) ==
  IF ks = <<>> THEN [result |-> Ok, hsva |-> hsva, applied |-> <<>>]
  ELSE Let(apply_pixel_filter(filters[Head(ks)], hsva), LAMBDA r :
         IF IsInvalidFilter(r.result)
         THEN [result |-> r.result, hsva |-> r.hsva, applied |-> <<Head(ks)>>]
         ELSE Let(PixelFilterLoop(filters, Tail(ks), r.hsva), LAMBDA rest :
                [rest EXCEPT !.applied = <<Head(ks)>> \o @]))

\* A faulty variant of TransformClosure: a config that disallows alpha makes
\* every pixel opaque.
TransformClosure_opaque(config, target, hsva) ==
  Let(PixelFilterLoop(config.filters, FilterIndexes(config.filters, "Pixel", 1),
                      set_hue(hsva, target.hue)), LAMBDA r :
    IF config.allow_alpha THEN r ELSE [r EXCEPT !.hsva.alpha = Unit])

\* The closure transform_image hands to walk_pixels: force the hue to the
\* target's, then apply the Pixel filters in list order.
TransformClosure(config, target, hsva) ==
  PixelFilterLoop(config.filters, FilterIndexes(config.filters, "Pixel", 1),
                  set_hue(hsva, target.hue))

\* The closure apply_image_filter hands to walk_pixels for a Saturation filter.
SaturationClosure(filter, hsva) ==
  Let(apply_pixel_filter(filter, hsva), LAMBDA r :
    [result |-> r.result, hsva |-> r.hsva, applied |-> <<>>])

\* f(&mut hsva): a closure is [config, target] or [filter].
CallClosure(f, hsva) ==
  IF "filter" \in DOMAIN f THEN SaturationClosure(f.filter, hsva)
  ELSE TransformClosure(f.config, f.target, hsva)

\* walk_pixels(image, f) from pixel i on.  A closure error returns at once:
\* the failing pixel is not written back, the pixels before it stay written.
\* visits: per pixel visited, the filter indexes the closure applied.
RECURSIVE WalkFrom(_, _, _)
WalkFrom(image, f, i) ==
  IF i > Len(image) THEN [result |-> Ok, image |-> image, visits |-> <<>>]
  ELSE Let(CallClosure(f, ToHsva(image[i])), LAMBDA r :
         IF IsInvalidFilter(r.result)
         THEN [result |-> r.result, image |-> image, visits |-> <<r.applied>>]
         ELSE Let(WalkFrom([image EXCEPT ![i] = FromHsva(r.hsva)], f, i + 1), LAMBDA rest :
                [rest EXCEPT !.visits = <<r.applied>> \o @]))

walk_pixels(image, f) == WalkFrom(image, f, 1)

\* ------------------------------------------------------ apply_image_filter
ImageContrast(filter, image) ==
  CASE filter.operation = "Add" ->
         [result |-> Ok, image |-> contrast_in_place(image, filter.value)]
    [] filter.operation = "Multiply" ->
         [result |-> Ok, image |-> contrast_in_place(image, filter.value - VUnit)]
    [] OTHER -> [result |-> invalid_filter(filter), image |-> image]

ImageHue(filter, image) ==
  CASE filter.operation = "Add" ->
         [result |-> Ok, image |-> huerotate_in_place(image, RoundValue(filter.value))]
    [] OTHER -> [result |-> invalid_filter(filter), image |-> image]

ImageSaturation(filter, image) ==
  Let(walk_pixels(image, [filter |-> filter]), LAMBDA r :
    [result |-> r.result, image |-> r.image])

\* A faulty variant of ImageBrightness: Multiply and Set reuse the Add formula.
ImageBrightness_reuseAdd(filter, image) ==
  [result |-> Ok, image |-> brighten_in_place(image, RoundValue(filter.value))]

ImageBrightness(filter, image) ==
  CASE filter.operation = "Add" ->
         [result |-> Ok, image |-> brighten_in_place(image, RoundValue(filter.value))]
    [] OTHER -> [result |-> invalid_filter(filter), image |-> image]

\* apply_image_filter(filter, &mut image): the result and the buffer left behind.
apply_image_filter(filter, image) ==
  CASE filter.target = "Contrast" -> ImageContrast(filter, image)
    [] filter.target = "Hue" -> ImageHue(filter, image)
    [] filter.target = "Saturation" -> ImageSaturation(filter, image)
    [] OTHER -> ImageBrightness(filter, image)

\* --------------------------------------------------------- transform_image
\* for filter in <the Image filters> { apply_image_filter(filter, image)?; }
RECURSIVE ImageFilterLoop(_, _, _)
ImageFilterLoop(filters, ks, image) ==
  IF ks = <<>> THEN [result |-> Ok, image |-> image, applied |-> <<>>]
  ELSE Let(apply_image_filter(filters[Head(ks)], image), LAMBDA r :
         IF IsInvalidFilter(r.result)
         THEN [result |-> r.result, image |-> r.image, applied |-> <<Head(ks)>>]
         ELSE Let(ImageFilterLoop(filters, Tail(ks), r.image), LAMBDA rest :
                [rest EXCEPT !.applied = <<Head(ks)>> \o @]))

\* The calls of one pixel's visit, as events: the hue is forced, then
\* apply_pixel_filter is called with each index of applied.
VisitEvents(i, applied) ==
  <<<<"set_hue", i, 0>>>> \o [n \in 1..Len(applied) |-> <<"pixel", i, applied[n]>>]

RECURSIVE WalkEvents(_, _)
WalkEvents(visits, i) ==
  IF i > Len(visits) THEN <<>>
  ELSE VisitEvents(i, visits[i]) \o WalkEvents(visits, i + 1)

ImageEvents(applied) == [n \in 1..Len(applied) |-> <<"image", 0, applied[n]>>]

\* let target = Hsv::from_color(Srgb::from_components(config.rgb).into_format())
TargetOf(config) ==
  HsvFromRgb(IntoFloat(config.rgb[1]), IntoFloat(config.rgb[2]), IntoFloat(config.rgb[3]))

\* transform_image(config, &mut image): the result, the buffer left behind and
\* the calls made, in order (<<"set_hue", pixel, 0>>, <<"pixel", pixel, filter
\* index>>, <<"image", 0, filter index>>).
transform_image(config, image) ==
  Let(walk_pixels(image, [config |-> config, target |-> TargetOf(config)]), LAMBDA walked :
    IF IsInvalidFilter(walked.result)
    THEN [result |-> walked.result, image |-> walked.image,
          trace |-> WalkEvents(walked.visits, 1)]
    ELSE Let(ImageFilterLoop(config.filters,
                             FilterIndexes(config.filters, "Image", 1),
                             walked.image), LAMBDA r :
           [result |-> r.result, image |-> r.image,
            trace |-> WalkEvents(walked.visits, 1) \o ImageEvents(r.applied)]))

\* =================================================================== state
VARIABLES
  config,     \* transform_image: the DyeColorConfig of the call
  image,      \* the RgbaImage buffer handed to the library, mutated in place
  before,     \* the buffer as it was when the call began
  result,     \* what the last call returned (<<"none">> before any call)
  trace,      \* transform_image: the calls it made, in order
  hsva,       \* apply_pixel_filter: the HSVA value, mutated in place
  prevHsva,   \* the HSVA value as it was when the last call began
  filter,     \* the filter of the last apply_pixel_filter / apply_image_filter call
  calls,      \* how many calls have been made
  source,     \* main_png: the decoded source image (RGBA8)
  colors,     \* main_png: Config.colors, DyeColor -> DyeColorConfig
  color,      \* main_png: arguments.color (<<>> is None, <<c>> is Some(c))
  remaining,  \* main_png: the entries of the colour map not yet iterated
  buffer,     \* main_png: the buffer of the last iteration
  saved,      \* main_png: the buffers handed to save_buffer, per colour
  exit        \* main_png: "running", then what it returned

vars == <<config, image, before, result, trace, hsva, prevHsva, filter, calls,
          source, colors, color, remaining, buffer, saved, exit>>

libVars == <<config, image, before, result, trace, hsva, prevHsva, filter, calls>>
cliVars == <<source, colors, color, remaining, buffer, saved, exit>>

None == <<"none">>

\* ------------------------------------------------------------------ inputs
White == <<255, 255, 255, 255>>
Gray == <<128, 128, 128, 255>>
\* An amethyst purple, half transparent.
Amethyst == <<153, 102, 204, 128>>

\* A rose red: red dominant with green < blue, so its raw hue is negative.
Rose == <<200, 30, 90, 255>>

PixelSet == {White, Gray, Amethyst, Rose}

\* Every buffer of at most n pixels of PixelSet (an RgbaImage may be empty).
ImagesUpTo(n) == UNION {[1..len -> PixelSet] : len \in 0..n}

\* Dye colours: pure red, and light blue.
RgbSet == {<<255, 0, 0>>, <<58, 179, 218>>}

\* The filters transform_image is given: valid and invalid ones of both kinds.
FilterMenu ==
  { Filter("Pixel", "Saturation", "Set", 2),
    Filter("Pixel", "Saturation", "Multiply", 20),
    Filter("Pixel", "Brightness", "Add", -2),
    Filter("Pixel", "Contrast", "Add", 2),
    Filter("Pixel", "Contrast", "Multiply", 20),
    Filter("Pixel", "Contrast", "Set", 10),
    Filter("Image", "Brightness", "Add", 100),
    Filter("Image", "Contrast", "Add", 200),
    Filter("Image", "Hue", "Add", 900),
    Filter("Image", "Contrast", "Set", 2) }

FilterLists(n) == UNION {[1..len -> FilterMenu] : len \in 0..n}

NoConfig == DyeColorConfig(<<0, 0, 0>>, TRUE, <<>>)
NoHsva == [hue |-> 0, saturation |-> 0, value |-> 0, alpha |-> 0]
NoFilter == Filter("Pixel", "Hue", "Add", 0)

LibIdle ==
  /\ config = NoConfig /\ image = <<>> /\ before = <<>> /\ result = None
  /\ trace = <<>> /\ hsva = NoHsva /\ prevHsva = NoHsva /\ filter = NoFilter
  /\ calls = 0

CliIdle ==
  /\ source = <<>> /\ colors = <<>> /\ color = <<>> /\ remaining = {}
  /\ buffer = <<>> /\ saved = <<>> /\ exit = "idle"

\* ============================================== Spec: transform_image calls
Init ==
  /\ config \in {DyeColorConfig(rgb, aa, fs) :
                   rgb \in RgbSet, aa \in BOOLEAN, fs \in FilterLists(MaxFilters)}
  /\ image \in ImagesUpTo(MaxPixels)
  /\ before = image
  /\ result = None /\ trace = <<>>
  /\ hsva = NoHsva /\ prevHsva = NoHsva /\ filter = NoFilter /\ calls = 0
  /\ CliIdle

\* amethyst_colorizer::transform_image(&config, &mut image)
TransformImage ==
  /\ result = None
  /\ LET r == transform_image(config, image)
     IN /\ image' = r.image
        /\ result' = r.result
        /\ trace' = r.trace
  /\ calls' = calls + 1
  /\ UNCHANGED <<config, before, hsva, prevHsva, filter>>
  /\ UNCHANGED cliVars

Next == TransformImage

Spec == Init /\ [][Next]_vars

\* ========================================= SpecPixel: apply_pixel_filter calls
\* Filter values, in units of 1/VUnit: -1000, -1, 0, 0.2, 2, 360, 1000.
PixelValues == {-10000, -10, 0, 2, 20, 3600, 10000}

PixelFilterSet ==
  {Filter(k, t, o, v) : k \in FilterType, t \in FilterTarget, o \in FilterOperation,
                        v \in PixelValues}

InitPixel ==
  /\ hsva \in {ToHsva(p) : p \in PixelSet}
  /\ prevHsva = hsva
  /\ filter = NoFilter /\ result = None /\ calls = 0
  /\ config = NoConfig /\ image = <<>> /\ before = <<>> /\ trace = <<>>
  /\ CliIdle

\* amethyst_colorizer::apply_pixel_filter(f, &mut hsva)
ApplyPixelFilter(f) ==
  /\ calls < MaxCalls
  /\ (f.target = "Hue" /\ f.operation = "Multiply") => Abs(hsva.hue) <= HueCap
  /\ LET r == apply_pixel_filter(f, hsva)
     IN /\ hsva' = r.hsva
        /\ result' = r.result
  /\ prevHsva' = hsva
  /\ filter' = f
  /\ calls' = calls + 1
  /\ UNCHANGED <<config, image, before, trace>>
  /\ UNCHANGED cliVars

NextPixel == \E f \in PixelFilterSet : ApplyPixelFilter(f)

SpecPixel == InitPixel /\ [][NextPixel]_vars

\* ========================================= SpecImage: apply_image_filter calls
\* Filter values per target, in units of 1/VUnit.  Hue: whole quarter turns.
\* Brightness: -1000, 0.5 (rounds to 1), 10.  Contrast and Saturation: -50,
\* 0.2, 2, 20.
ImageValues(target) ==
  CASE target = "Hue" -> {-900, 0, 900, 3600}
    [] target = "Brightness" -> {-10000, 5, 100}
    [] OTHER -> {-500, 2, 20, 200}

ImageFilterSet ==
  {f \in {Filter(k, t, o, v) : k \in FilterType, t \in FilterTarget, o \in FilterOperation,
                              v \in {-10000, -900, -500, 0, 2, 5, 20, 100, 200, 900, 3600}} :
     f.value \in ImageValues(f.target)}

InitImage ==
  /\ image \in ImagesUpTo(MaxPixels)
  /\ before = image
  /\ filter = NoFilter /\ result = None /\ calls = 0
  /\ config = NoConfig /\ trace = <<>> /\ hsva = NoHsva /\ prevHsva = NoHsva
  /\ CliIdle

\* amethyst_colorizer::apply_image_filter(f, &mut image)
ApplyImageFilter(f) ==
  /\ calls < MaxImageCalls
  /\ LET r == apply_image_filter(f, image)
     IN /\ image' = r.image
        /\ result' = r.result
  /\ before' = image
  /\ filter' = f
  /\ calls' = calls + 1
  /\ UNCHANGED <<config, trace, hsva, prevHsva>>
  /\ UNCHANGED cliVars

NextImage == \E f \in ImageFilterSet : ApplyImageFilter(f)

SpecImage == InitImage /\ [][NextImage]_vars

\* ================================================= SpecCli: main -> main_png
\* The keys of Config.colors in the model, three of the sixteen DyeColors.
DyeColors == {"red", "light_blue", "white"}

\* The DyeColorConfigs of the model's configuration files: no filters, two
\* valid filters, and a filter list apply_image_filter rejects.
CliConfigs ==
  { DyeColorConfig(<<255, 0, 0>>, TRUE, <<>>),
    DyeColorConfig(<<58, 179, 218>>, TRUE,
                   <<Filter("Pixel", "Saturation", "Set", 2),
                     Filter("Image", "Brightness", "Add", 100)>>),
    DyeColorConfig(<<255, 255, 255>>, FALSE,
                   <<Filter("Image", "Hue", "Set", 900)>>) }

\* DynamicImage::to_rgba8() of a decoded RGBA8 image: a new buffer holding a
\* copy of its pixels.
to_rgba8(img) == [i \in 1..Len(img) |-> img[i]]

\* A faulty variant of LoopBuffer: one buffer, filled before the loop and
\* shared by its iterations.
LoopBuffer_shared(img, previous) == IF previous = <<>> THEN to_rgba8(img) ELSE previous

\* let mut buffer = image.to_rgba8(); in the loop body: each iteration
\* declares its own buffer, whatever the previous iteration's buffer holds.
LoopBuffer(img, previous) == to_rgba8(img)

\* image::save_buffer(output, &buffer, ..): the file {color}_amethyst.png now
\* holds the buffer.
save_buffer(files, c, buf) ==
  [k \in (DOMAIN files) \cup {c} |-> IF k = c THEN buf ELSE files[k]]

\* main: the configuration is loaded, a given target colour is a key of it,
\* the path names a PNG; main_png has opened the image (a PNG has at least
\* one pixel).
InitCli ==
  /\ source \in ImagesUpTo(MaxPixels) \ {<<>>}
  /\ colors \in [DyeColors -> CliConfigs]
  /\ color \in {<<>>} \cup {<<c>> : c \in DyeColors}
  /\ remaining = DyeColors
  /\ buffer = <<>>
  /\ saved = <<>>
  /\ exit = "running"
  /\ LibIdle

\* if let Some(ref color) = arguments.color { .. return Ok(()) }
SingleVariant ==
  /\ exit = "running"
  /\ color # <<>>
  /\ LET r == transform_image(colors[color[1]], to_rgba8(source))
     IN /\ buffer' = r.image
        /\ IF IsInvalidFilter(r.result)
           THEN exit' = "Err" /\ saved' = saved
           ELSE exit' = "Ok" /\ saved' = save_buffer(saved, color[1], r.image)
  /\ UNCHANGED <<source, colors, color, remaining>>
  /\ UNCHANGED libVars

\* One iteration of for (color, config) in &config.colors, which visits the
\* HashMap's entries in an arbitrary order.
LoopIteration(c) ==
  /\ exit = "running"
  /\ color = <<>>
  /\ c \in remaining
  /\ LET r == transform_image(colors[c], LoopBuffer(source, buffer))
     IN /\ buffer' = r.image
        /\ IF IsInvalidFilter(r.result)
           THEN exit' = "Err" /\ saved' = saved
           ELSE exit' = exit /\ saved' = save_buffer(saved, c, r.image)
  /\ remaining' = remaining \ {c}
  /\ UNCHANGED <<source, colors, color>>
  /\ UNCHANGED libVars

\* The loop has visited every entry: Ok(())
LoopEnd ==
  /\ exit = "running"
  /\ color = <<>>
  /\ remaining = {}
  /\ exit' = "Ok"
  /\ UNCHANGED <<source, colors, color, remaining, buffer, saved>>
  /\ UNCHANGED libVars

NextCli ==
  \/ SingleVariant
  \/ \E c \in DyeColors : LoopIteration(c)
  \/ LoopEnd

SpecCli == InitCli /\ [][NextCli]_vars

\* ================================================================== claims
Called == result # None

HasPixelContrast(filters) ==
  \E k \in 1..Len(filters) : filters[k].kind = "Pixel" /\ filters[k].target = "Contrast"

\* C1: whenever the filter list holds a Pixel filter with target Contrast (any
\* operation, any position), for every image, transform_image returns
\* InvalidFilter and leaves every pixel of the buffer as it was.
C1_PixelContrastRejected ==
  (Called /\ HasPixelContrast(config.filters)) =>
    (IsInvalidFilter(result) /\ image = before)

\* C2: whenever transform_image returns InvalidFilter, whichever filter caused
\* it, the buffer after the call is identical to the buffer before the call.
C2_NoPartialApplication ==
  (Called /\ IsInvalidFilter(result)) => image = before

\* The indexes of the filters of a kind, as the increasing sequence over the
\* set of those indexes.
KindIndexes(filters, kind) ==
  LET S == {k \in 1..Len(filters) : filters[k].kind = kind}
  IN CHOOSE q \in [1..Cardinality(S) -> S] :
       \A a, b \in 1..Cardinality(S) : a < b => q[a] < q[b]

\* The calls of the two phases over n pixels: per pixel, in buffer order, the
\* hue is forced and each Pixel filter applied in list order; then each Image
\* filter is applied once, in list order.
TwoPhaseCalls(filters, n) ==
  LET P == KindIndexes(filters, "Pixel")
      I == KindIndexes(filters, "Image")
      per == 1 + Len(P)
  IN [p \in 1..(n * per + Len(I)) |->
        IF p > n * per THEN <<"image", 0, I[p - n * per]>>
        ELSE IF (p - 1) % per = 0 THEN <<"set_hue", ((p - 1) \div per) + 1, 0>>
        ELSE <<"pixel", ((p - 1) \div per) + 1, P[(p - 1) % per]>>]

IsPrefix(t, full) == Len(t) <= Len(full) /\ \A p \in 1..Len(t) : t[p] = full[p]

\* The filter list with its Pixel filters moved before its Image filters, the
\* order within each kind kept.
PixelFirst(filters) ==
  LET P == KindIndexes(filters, "Pixel")
      I == KindIndexes(filters, "Image")
  IN [n \in 1..Len(filters) |-> IF n <= Len(P) THEN filters[P[n]] ELSE filters[I[n - Len(P)]]]

\* C3: transform_image makes its calls in two phases: every pixel in buffer
\* order gets the target hue and then the Pixel filters in list order; only
\* then are the Image filters applied, once each, in list order (a call that
\* fails ends the sequence).  Where Pixel and Image filters stand relative to
\* each other in the list changes neither the result nor the buffer.
C3_TwoPhases ==
  Called =>
    /\ IsPrefix(trace, TwoPhaseCalls(config.filters, Len(before)))
    /\ result = Ok => trace = TwoPhaseCalls(config.filters, Len(before))
    /\ LET t == transform_image([config EXCEPT !.filters = PixelFirst(@)], before)
       IN t.result = result /\ t.image = image

C3_Witness ==
  /\ result = Ok
  /\ Len(before) = 2
  /\ Len(config.filters) = 2
  /\ config.filters[1].kind = "Image"
  /\ config.filters[2].kind = "Pixel"
  /\ trace = <<<<"set_hue", 1, 0>>, <<"pixel", 1, 2>>, <<"set_hue", 2, 0>>,
               <<"pixel", 2, 2>>, <<"image", 0, 1>>>>
  /\ image # before

\* What C4 says apply_pixel_filter computes on the targeted component x.
C4_Formula(operation, x, v) ==
  CASE operation = "Add" -> clamp(x + ValueToUnit(v), 0, Unit)
    [] operation = "Multiply" -> clamp(RDiv(x * v, VUnit), 0, Unit)
    [] OTHER -> clamp(ValueToUnit(v), 0, Unit)

\* C4: apply_pixel_filter with target Saturation or Brightness computes, on
\* the targeted component x, Add -> clamp(x + v), Multiply -> clamp(x * v),
\* Set -> clamp(v), and leaves the other components unchanged.
C4_SaturationBrightnessTable ==
  (calls > 0 /\ filter.target \in {"Saturation", "Brightness"}) =>
    /\ result = Ok
    /\ hsva = IF filter.target = "Saturation"
              THEN [prevHsva EXCEPT !.saturation = C4_Formula(filter.operation, @, filter.value)]
              ELSE [prevHsva EXCEPT !.value = C4_Formula(filter.operation, @, filter.value)]

InvalidImagePairs ==
  {<<"Contrast", "Set">>, <<"Hue", "Multiply">>, <<"Hue", "Set">>,
   <<"Brightness", "Multiply">>, <<"Brightness", "Set">>}

\* C5: apply_image_filter returns InvalidFilter, carrying the kind, target and
\* operation of the given filter, exactly for the pairs (Contrast, Set),
\* (Hue, Multiply), (Hue, Set), (Brightness, Multiply), (Brightness, Set);
\* for every other pair it returns Ok.
C5_ImageFilterTable ==
  calls > 0 =>
    IF <<filter.target, filter.operation>> \in InvalidImagePairs
    THEN result = <<"InvalidFilter", filter.kind, filter.target, filter.operation>>
    ELSE result = Ok

C5_Witness ==
  /\ calls > 0
  /\ filter.kind = "Image" /\ filter.target = "Brightness" /\ filter.operation = "Multiply"
  /\ result = <<"InvalidFilter", "Image", "Brightness", "Multiply">>
  /\ image # <<>>

\* C6: after any sequence of apply_pixel_filter calls, starting from an HSVA
\* value converted from an 8-bit pixel, saturation, value and alpha are each
\* within [0,1].
C6_ComponentsInRange ==
  /\ 0 <= hsva.saturation /\ hsva.saturation <= Unit
  /\ 0 <= hsva.value /\ hsva.value <= Unit
  /\ 0 <= hsva.alpha /\ hsva.alpha <= Unit

C6_Witness ==
  /\ calls = MaxCalls
  /\ filter.target = "Brightness" /\ filter.operation = "Add" /\ filter.value = 10000
  /\ prevHsva.value < Unit
  /\ hsva.value = Unit
  /\ hsva.saturation = 0

\* C7: with an empty filter list transform_image returns Ok and every output
\* pixel is the RGBA conversion of (target hue, original saturation, original
\* value, original alpha); a pixel of saturation 0 comes out within 1 unit per
\* channel of its input.
C7_HueReplacedOnly ==
  (Called /\ config.filters = <<>>) =>
    /\ result = Ok
    /\ Len(image) = Len(before)
    /\ \A i \in 1..Len(before) :
         LET orig == ToHsva(before[i])
         IN /\ image[i] = FromHsva([hue |-> TargetOf(config).hue,
                                    saturation |-> orig.saturation,
                                    value |-> orig.value,
                                    alpha |-> orig.alpha])
            /\ orig.saturation = 0 =>
                 \A ch \in 1..4 : Abs(image[i][ch] - before[i][ch]) <= 1

C7_Witness ==
  /\ result = Ok
  /\ config.filters = <<>>
  /\ config.rgb = <<255, 0, 0>>
  /\ before = <<Gray, Amethyst>>
  /\ image[1] = Gray
  /\ image[2] # Amethyst

HueAdd(v) == Filter("Pixel", "Hue", "Add", v)

\* C8: apply_pixel_filter with target Hue, operation Add and value 360 yields
\* the same effective colour as with value 0: the same hue once wrapped, the
\* same saturation, value and alpha, the same RGBA pixel.
C8_HueWrap ==
  (calls > 0 /\ filter.target = "Hue" /\ filter.operation = "Add" /\ filter.value = 360 * VUnit) =>
    LET zero == apply_pixel_filter([filter EXCEPT !.value = 0], prevHsva).hsva
    IN /\ result = Ok
       /\ into_positive_degrees(hsva.hue) = into_positive_degrees(zero.hue)
       /\ hsva.saturation = zero.saturation
       /\ hsva.value = zero.value
       /\ hsva.alpha = zero.alpha
       /\ FromHsva(hsva) = FromHsva(zero)

C8_Witness ==
  /\ calls > 0
  /\ filter = HueAdd(360 * VUnit)
  /\ prevHsva = ToHsva(Amethyst)
  /\ hsva.hue = prevHsva.hue + 360 * HUnit
  /\ FromHsva(hsva) = Amethyst

\* C9: every buffer main_png saves for a colour is the transform of a fresh
\* copy of the source under that colour's config: it depends on nothing else,
\* whichever colours were processed before it and in whatever order.
C9_IndependentVariants ==
  \A c \in DOMAIN saved :
    LET t == transform_image(colors[c], source)
    IN t.result = Ok /\ saved[c] = t.image

C9_Witness ==
  /\ color = <<>>
  /\ exit = "Ok"
  /\ DOMAIN saved = DyeColors
  /\ saved["red"] # saved["white"]
  /\ saved["red"] # source
  /\ colors["red"].filters # <<>>

====
